---- MODULE Spec2Model ----
(***************************************************************************)
(* The VoxTube server supervisor: src-tauri/src/lib.rs (port probe, health  *)
(* wait, spawn, shutdown) driven by src-tauri/src/main.rs (the start worker *)
(* thread and the window-close / exit callbacks sharing a locked slot).     *)
(*                                                                          *)
(* Time is in milliseconds.  The code only ever compares an Instant with    *)
(* one taken earlier in the same call, so the clock `now` is read relative  *)
(* to the entry of the timed call in progress (wait_for_server or           *)
(* shutdown_server; the two never overlap, the slot being filled only after *)
(* start_server has returned).  Only blocking calls take time: a health     *)
(* request takes its duration, thread::sleep its interval.  Everything else *)
(* is instantaneous, and the environment (the child, a third party on the   *)
(* port) may act between any two steps.                                     *)
(***************************************************************************)
EXTENDS Integers, Sequences, FiniteSets, TLC

\* ---------------------------------------------------------------- constants
HEALTH_TIMEOUT == 4000
REQUEST_TIMEOUT == 500
POLL_INTERVAL == 200
GRACE_PERIOD == 2000
SHUTDOWN_POLL == 100

\* ------------------------------------------------------------------- bounds
\* Request durations: none, the whole per-request timeout, and MidDurations values
\* between them, half a poll interval apart.
MidDurations == 3
\* How many CloseRequested events the window delivers.
MaxCloseEvents == 2

ReqDurations ==
    {0, REQUEST_TIMEOUT}
    \cup {d \in {k * (POLL_INTERVAL \div 2) : k \in 1..MidDurations} : d < REQUEST_TIMEOUT}
Archs == {"aarch64", "x86_64", "riscv64"}
StatusCodes == {200, 204, 404, 503}

VARIABLES
    unix,        \* cfg(unix): which graceful_shutdown_impl is compiled in
    arch,        \* std::env::consts::ARCH
    now,         \* the clock, ms since the timed call in progress was entered
    port,        \* who listens on SERVER_PORT: "free" | "third" | "child"
    child,       \* "none" | "running" | "exited" (not yet reaped) | "reaped"
    sig,         \* the signal pending on the child: "none" | "term" | "kill"
    exitAt,      \* the clock when the child exited during a shutdown_server call, else -1
    exitBy,      \* "none" | "self" | "term" | "kill": what was pending when it exited
    wpc,         \* the start worker's position
    steps,       \* the steps of start_server executed so far, in order
    stepOk,      \* for each of them, whether it succeeded
    probe,       \* the port probe's answer: "none" | "free" | "busy"
    connect,     \* the outcome of the probe's connection attempt, "none" before
    startErr,    \* the error start_server returned, "none" if none (yet)
    raced,       \* a third party took the port after the probe said free, before spawn
    waitStart,   \* wait_for_server: `start`
    reqAt,       \* when the health request just answered was issued, -1 if none
    lastResp,    \* the health response being matched
    waitResult,  \* "none" | "ok" | "timeout" | "client"
    epc,         \* the event loop's position
    lock,        \* holder of the Mutex<ServerState>: "none" | "worker" | "event"
    slot,        \* ServerState.child is Some
    closes,      \* CloseRequested events delivered so far
    exitReq,     \* AppHandle::exit was called
    spc,         \* shutdown_server's position, "none" outside a call
    deadline,    \* graceful_shutdown_impl: `deadline`
    termAt,      \* when this call sent SIGTERM, -1 if it did not
    kills,       \* forced kills issued by this call
    killAt,      \* when this call issued its last forced kill, -1 if none
    lastPoll,    \* this call's last try_wait: "none" | "some" | "running" | "err"
    callChild,   \* the child's state when this call was entered, "none" outside a call
    staleSig     \* SIGTERM was sent to the pid of a child already reaped

childVars == <<child, sig, exitAt, exitBy>>
startVars == <<wpc, steps, stepOk, probe, connect, startErr, raced>>
waitVars == <<waitStart, reqAt, lastResp, waitResult>>
mainVars == <<epc, lock, slot, closes, exitReq>>
shutVars == <<spc, deadline, termAt, kills, killAt, lastPoll, callChild>>
vars == <<unix, arch, now, port, childVars, startVars, waitVars, mainVars, shutVars,
          staleSig>>

NoResp == [err |-> "none", status |-> 0]

\* The process is alive until the event loop has handled RunEvent::Exit.
Alive == epc # "exited"

Init ==
    /\ unix \in BOOLEAN
    /\ arch \in Archs
    /\ now = 0
    /\ port \in {"free", "third"}
    /\ child = "none" /\ sig = "none" /\ exitAt = -1 /\ exitBy = "none"
    /\ wpc = "arch" /\ steps = <<>> /\ stepOk = <<>>
    /\ probe = "none" /\ connect = "none" /\ startErr = "none" /\ raced = FALSE
    /\ waitStart = 0 /\ reqAt = -1 /\ lastResp = NoResp /\ waitResult = "none"
    /\ epc = "idle" /\ lock = "none" /\ slot = FALSE /\ closes = 0 /\ exitReq = FALSE
    /\ spc = "none" /\ deadline = 0 /\ termAt = -1 /\ kills = 0 /\ killAt = -1
    /\ lastPoll = "none" /\ callChild = "none" /\ staleSig = FALSE

\* ------------------------------------------------------------ environment
\* A third party binds the port.
ThirdPartyBind ==
    /\ port = "free"
    /\ port' = "third"
    /\ raced' = (raced \/ wpc = "spawn")
    /\ UNCHANGED <<unix, staleSig, arch, now, childVars, wpc, steps, stepOk, probe,
                   connect, startErr, waitVars, mainVars, shutVars>>

\* The spawned server binds the port it was given.
ChildBind ==
    /\ child = "running" /\ sig # "kill" /\ port = "free"
    /\ port' = "child"
    /\ UNCHANGED <<unix, staleSig, arch, now, childVars, startVars, waitVars, mainVars,
                   shutVars>>

\* The child terminates: on its own, on SIGTERM, or killed by SIGKILL.
ChildExit ==
    /\ child = "running"
    /\ child' = "exited"
    /\ exitAt' = IF spc = "none" THEN -1 ELSE now
    /\ exitBy' = IF sig = "none" THEN "self" ELSE sig
    /\ port' = IF port = "child" THEN "free" ELSE port
    /\ UNCHANGED <<unix, staleSig, arch, now, sig, startVars, waitVars, mainVars,
                   shutVars>>

\* Once SIGKILL is pending the child cannot outlive it.
ChildDie == sig = "kill" /\ ChildExit

\* Child::kill: no signal is sent to a child whose exit status is already held.
KillSignal == IF child = "reaped" THEN sig ELSE "kill"

\* Child::wait returns once the child has exited, and reaps it.
CanReap == child \in {"exited", "reaped"}

\* ------------------------------------------------- lib.rs: pure decisions
\* TcpStream::connect_timeout to 127.0.0.1:port, by who listens there.
ConnectOutcomes(p) ==
    IF p = "free" THEN {"refused", "timed_out", "unreachable"} ELSE {"ok", "timed_out"}

\* Mutant: every failed connection attempt counts as a free port.
check_port_available_NotOk(r) == r # "ok"

\* check_port_available, given the outcome of its one connection attempt.
check_port_available(r) ==
    IF r = "ok" THEN FALSE
    ELSE IF r = "refused" THEN TRUE
    ELSE FALSE

\* The match on std::env::consts::ARCH.
ArchSupported(a) == a \in {"aarch64", "x86_64"}

\* Mutant: any reply with a status from 200 up counts as healthy.
is_success_AnyReply(status) == status >= 200

\* StatusCode::is_success as used on the health response.
is_success(status) == status >= 200 /\ status <= 299

\* Ok(resp) if resp.status().is_success()
Healthy(r) == r.err = "none" /\ is_success(r.status)

\* Mutant: the deadline test counts the coming sleep as already elapsed.
TimedOut_Early(elapsed, timeout) == elapsed + POLL_INTERVAL > timeout

\* Mutant: the deadline test allows one more poll interval.
TimedOut_Late(elapsed, timeout) == elapsed > timeout + POLL_INTERVAL

\* start.elapsed() > timeout
TimedOut(elapsed, timeout) == elapsed > timeout

\* Mutant: the grace period is not waited for at all.
GraceElapsed_Always(t, d) == TRUE

\* Mutant: escalation after half the grace period.
GraceElapsed_HalfWay(t, d) == 2 * t >= d

\* Instant::now() >= deadline
GraceElapsed(t, d) == t >= d

\* What client.get(&url).send() can produce, by who listens on the port.
Responses(p) ==
    IF p = "free" THEN {[err |-> "connect", status |-> 0]}
    ELSE {[err |-> "none", status |-> c] : c \in StatusCodes}
         \cup {[err |-> "timeout", status |-> 0], [err |-> "connect", status |-> 0]}

\* How long such a request can take: a timeout takes the whole per-request timeout.
Durations(r) == IF r.err = "timeout" THEN {REQUEST_TIMEOUT} ELSE ReqDurations

\* ------------------------------------------------- lib.rs: start_server
Step(name, ok) == steps' = Append(steps, name) /\ stepOk' = Append(stepOk, ok)

\* return Err(..) / the ? operator, before any child exists
Fail(name) == wpc' = "ret_err" /\ startErr' = name

StartArch ==
    /\ Alive /\ wpc = "arch"
    /\ Step("arch", ArchSupported(arch))
    /\ IF ArchSupported(arch) THEN wpc' = "resource_dir" /\ startErr' = startErr
       ELSE Fail("arch")
    /\ UNCHANGED <<unix, staleSig, arch, now, port, childVars, probe, connect, raced,
                   waitVars, mainVars, shutVars>>

StartResourceDir ==
    /\ Alive /\ wpc = "resource_dir"
    /\ \E ok \in BOOLEAN :
        /\ Step("resource_dir", ok)
        /\ IF ok THEN wpc' = "app_data_dir" /\ startErr' = startErr
           ELSE Fail("resource_dir")
    /\ UNCHANGED <<unix, staleSig, arch, now, port, childVars, probe, connect, raced,
                   waitVars, mainVars, shutVars>>

StartAppDataDir ==
    /\ Alive /\ wpc = "app_data_dir"
    /\ \E ok \in BOOLEAN :
        /\ Step("app_data_dir", ok)
        /\ IF ok THEN wpc' = "logging" /\ startErr' = startErr
           ELSE Fail("app_data_dir")
    /\ UNCHANGED <<unix, staleSig, arch, now, port, childVars, probe, connect, raced,
                   waitVars, mainVars, shutVars>>

\* Mutant: a logging failure is ignored and start_server goes on.
setup_logging_NoAbort ==
    /\ Alive /\ wpc = "logging"
    /\ \E ok \in BOOLEAN : Step("log", ok)
    /\ wpc' = "probe"
    /\ UNCHANGED <<unix, staleSig, arch, now, port, childVars, probe, connect,
                   startErr, raced, waitVars, mainVars, shutVars>>

\* setup_logging: create_dir_all, open in append mode, try_clone; any may fail.
setup_logging ==
    /\ Alive /\ wpc = "logging"
    /\ \E ok \in BOOLEAN :
        /\ Step("log", ok)
        /\ IF ok THEN wpc' = "probe" /\ startErr' = startErr
           ELSE Fail("log")
    /\ UNCHANGED <<unix, staleSig, arch, now, port, childVars, probe, connect, raced,
                   waitVars, mainVars, shutVars>>

\* Mutant: the probe's answer is recorded but start_server goes on to spawn.
StartProbe_NoAbort ==
    /\ Alive /\ wpc = "probe"
    /\ \E r \in ConnectOutcomes(port) :
        /\ Step("probe", check_port_available(r))
        /\ probe' = IF check_port_available(r) THEN "free" ELSE "busy"
        /\ connect' = r
    /\ wpc' = "spawn"
    /\ UNCHANGED <<unix, staleSig, arch, now, port, childVars, startErr, raced,
                   waitVars, mainVars, shutVars>>

StartProbe ==
    /\ Alive /\ wpc = "probe"
    /\ \E r \in ConnectOutcomes(port) :
        /\ Step("probe", check_port_available(r))
        /\ probe' = IF check_port_available(r) THEN "free" ELSE "busy"
        /\ connect' = r
        /\ IF check_port_available(r) THEN wpc' = "spawn" /\ startErr' = startErr
           ELSE Fail("port")
    /\ UNCHANGED <<unix, staleSig, arch, now, port, childVars, raced, waitVars,
                   mainVars, shutVars>>

StartSpawn ==
    /\ Alive /\ wpc = "spawn"
    /\ \E ok \in BOOLEAN :
        /\ Step("spawn", ok)
        /\ IF ok THEN /\ child' = "running"
                      /\ wpc' = "wait_begin" /\ startErr' = startErr
           ELSE child' = child /\ Fail("spawn")
    /\ UNCHANGED <<unix, staleSig, arch, now, port, sig, exitAt, exitBy, probe,
                   connect, raced, waitVars, mainVars, shutVars>>

\* Mutant: the health error is returned without killing the child.
StartKillOnFail_NoKill ==
    /\ Alive /\ wpc = "hf_kill"
    /\ wpc' = "ret_err" /\ startErr' = waitResult
    /\ UNCHANGED <<unix, staleSig, arch, now, port, childVars, steps, stepOk, probe,
                   connect, raced, waitVars, mainVars, shutVars>>

\* if let Err(msg) = wait_for_server(..) { let _ = child.kill();
StartKillOnFail ==
    /\ Alive /\ wpc = "hf_kill"
    /\ sig' = KillSignal
    /\ wpc' = "hf_wait"
    /\ UNCHANGED <<unix, staleSig, arch, now, port, child, exitAt, exitBy, steps,
                   stepOk, probe, connect, startErr, raced, waitVars, mainVars,
                   shutVars>>

\* let _ = child.wait(); return Err(msg); }
StartWaitOnFail ==
    /\ Alive /\ wpc = "hf_wait"
    /\ CanReap
    /\ child' = "reaped"
    /\ wpc' = "ret_err" /\ startErr' = waitResult
    /\ UNCHANGED <<unix, staleSig, arch, now, port, sig, exitAt, exitBy, steps, stepOk,
                   probe, connect, raced, waitVars, mainVars, shutVars>>

\* ------------------------------------------------- lib.rs: wait_for_server
\* Client::builder()..build()?, start = Instant::now()
WaitBegin ==
    /\ Alive /\ wpc = "wait_begin"
    /\ now' = 0
    /\ \E ok \in BOOLEAN :
        /\ Step("wait", ok)
        /\ IF ok THEN waitStart' = 0 /\ wpc' = "wait_check" /\ UNCHANGED waitResult
           ELSE waitResult' = "client" /\ wpc' = "hf_kill" /\ UNCHANGED waitStart
    /\ UNCHANGED <<unix, staleSig, arch, port, childVars, probe, connect, startErr,
                   raced, reqAt, lastResp, mainVars, shutVars>>

\* if start.elapsed() > timeout { return Err(..) }
WaitCheck ==
    /\ Alive /\ wpc = "wait_check"
    /\ IF TimedOut(now - waitStart, HEALTH_TIMEOUT)
       THEN /\ waitResult' = "timeout" /\ wpc' = "hf_kill"
            /\ stepOk' = [stepOk EXCEPT ![Len(stepOk)] = FALSE]
       ELSE /\ wpc' = "wait_req"
            /\ UNCHANGED <<waitResult, stepOk>>
    /\ UNCHANGED <<unix, staleSig, arch, now, port, childVars, steps, probe, connect,
                   startErr, raced, waitStart, reqAt, lastResp, mainVars, shutVars>>

\* match client.get(&url).send() { Ok(resp) if success => return Ok(()), _ => {} }
WaitRequest ==
    /\ Alive /\ wpc = "wait_req"
    /\ \E r \in Responses(port) : \E d \in Durations(r) :
        /\ reqAt' = now
        /\ now' = now + d
        /\ lastResp' = r
        /\ IF Healthy(r)
           THEN waitResult' = "ok" /\ wpc' = "ret_ok"
           ELSE wpc' = "wait_sleep" /\ UNCHANGED waitResult
    /\ UNCHANGED <<unix, staleSig, arch, port, childVars, steps, stepOk, probe,
                   connect, startErr, raced, waitStart, mainVars, shutVars>>

\* std::thread::sleep(poll_interval); the response matched is dropped
WaitSleep ==
    /\ Alive /\ wpc = "wait_sleep"
    /\ now' = now + POLL_INTERVAL
    /\ reqAt' = -1 /\ lastResp' = NoResp
    /\ wpc' = "wait_check"
    /\ UNCHANGED <<unix, staleSig, arch, port, childVars, steps, stepOk, probe,
                   connect, startErr, raced, waitStart, waitResult, mainVars,
                   shutVars>>

start_server ==
    \/ StartArch \/ StartResourceDir \/ StartAppDataDir \/ setup_logging
    \/ StartProbe \/ StartSpawn \/ StartKillOnFail \/ StartWaitOnFail

wait_for_server == WaitBegin \/ WaitCheck \/ WaitRequest \/ WaitSleep

\* ------------------------------------------------- lib.rs: shutdown_server
\* cfg(unix): libc::kill(pid, SIGTERM); deadline = Instant::now() + 2s
ShutTerm ==
    /\ spc = "call" /\ unix
    /\ sig' = IF child = "running" /\ sig = "none" THEN "term" ELSE sig
    /\ termAt' = now
    /\ deadline' = now + GRACE_PERIOD
    /\ staleSig' = (staleSig \/ child = "reaped")
    /\ spc' = "try_wait"
    /\ UNCHANGED <<unix, arch, now, port, child, exitAt, exitBy, startVars, waitVars,
                   mainVars, kills, killAt, lastPoll, callChild>>

\* What child.try_wait() can return: the held status, a fresh one, None, or an error.
TryWaitOutcomes ==
    IF child = "reaped" THEN {"some"}
    ELSE IF child = "exited" THEN {"some", "err"}
    ELSE {"running", "err"}

\* Mutant: a failing status query ends the shutdown without escalating.
ShutTryWait_ErrReturns ==
    /\ spc = "try_wait"
    /\ \E r \in TryWaitOutcomes :
        /\ lastPoll' = r
        /\ child' = IF r = "some" THEN "reaped" ELSE child
        /\ spc' = CASE r = "some" -> "ret"
                    [] r = "running" -> "deadline"
                    [] OTHER -> "ret"
    /\ UNCHANGED <<unix, staleSig, arch, now, port, sig, exitAt, exitBy, startVars,
                   waitVars, mainVars, deadline, termAt, kills, killAt, callChild>>

\* Mutant: an exit status already held is treated like a child still running.
ShutTryWait_IgnoreExit ==
    /\ spc = "try_wait"
    /\ \E r \in TryWaitOutcomes :
        /\ lastPoll' = r
        /\ child' = IF r = "some" THEN "reaped" ELSE child
        /\ spc' = CASE r = "some" -> "deadline"
                    [] r = "running" -> "deadline"
                    [] OTHER -> "kill"
    /\ UNCHANGED <<unix, staleSig, arch, now, port, sig, exitAt, exitBy, startVars,
                   waitVars, mainVars, deadline, termAt, kills, killAt, callChild>>

\* match child.try_wait() { Ok(Some(_)) => return, Ok(None) => .., Err(e) => .. }
ShutTryWait ==
    /\ spc = "try_wait"
    /\ \E r \in TryWaitOutcomes :
        /\ lastPoll' = r
        /\ child' = IF r = "some" THEN "reaped" ELSE child
        /\ spc' = CASE r = "some" -> "ret"
                    [] r = "running" -> "deadline"
                    [] OTHER -> "kill"
    /\ UNCHANGED <<unix, staleSig, arch, now, port, sig, exitAt, exitBy, startVars,
                   waitVars, mainVars, deadline, termAt, kills, killAt, callChild>>

\* if Instant::now() >= deadline { .. kill .. } else sleep
ShutDeadline ==
    /\ spc = "deadline"
    /\ spc' = IF GraceElapsed(now, deadline) THEN "kill" ELSE "sleep"
    /\ UNCHANGED <<unix, staleSig, arch, now, port, childVars, startVars, waitVars,
                   mainVars, deadline, termAt, kills, killAt, lastPoll, callChild>>

\* std::thread::sleep(Duration::from_millis(100))
ShutSleep ==
    /\ spc = "sleep"
    /\ now' = now + SHUTDOWN_POLL
    /\ spc' = "try_wait"
    /\ UNCHANGED <<unix, staleSig, arch, port, childVars, startVars, waitVars,
                   mainVars, deadline, termAt, kills, killAt, lastPoll, callChild>>

\* let _ = child.kill();   (either escalation branch)
ShutKill ==
    /\ spc = "kill"
    /\ sig' = KillSignal
    /\ kills' = kills + 1
    /\ killAt' = now
    /\ spc' = "wait"
    /\ UNCHANGED <<unix, staleSig, arch, now, port, child, exitAt, exitBy, startVars,
                   waitVars, mainVars, deadline, termAt, lastPoll, callChild>>

\* Mutant: shutdown returns after the kill without waiting for the exit.
ShutWait_NoWait ==
    /\ spc = "wait"
    /\ spc' = "ret"
    /\ UNCHANGED <<unix, staleSig, arch, now, port, childVars, startVars, waitVars,
                   mainVars, deadline, termAt, kills, killAt, lastPoll, callChild>>

\* let _ = child.wait(); return;
ShutWait ==
    /\ spc = "wait"
    /\ CanReap
    /\ child' = "reaped"
    /\ spc' = "ret"
    /\ UNCHANGED <<unix, staleSig, arch, now, port, sig, exitAt, exitBy, startVars,
                   waitVars, mainVars, deadline, termAt, kills, killAt, lastPoll,
                   callChild>>

\* cfg(not(unix)): let _ = child.kill();
OtherKill ==
    /\ spc = "call" /\ ~unix
    /\ sig' = KillSignal
    /\ kills' = kills + 1
    /\ killAt' = now
    /\ spc' = "wait"
    /\ UNCHANGED <<unix, staleSig, arch, now, port, child, exitAt, exitBy, startVars,
                   waitVars, mainVars, deadline, termAt, lastPoll, callChild>>

graceful_shutdown_impl ==
    \/ ShutTerm \/ ShutTryWait \/ ShutDeadline \/ ShutSleep \/ ShutKill \/ ShutWait
    \/ OtherKill

shutdown_server == graceful_shutdown_impl

\* A caller enters shutdown_server(child): a fresh call.
Call ==
    /\ now' = 0
    /\ spc' = "call" /\ deadline' = 0 /\ termAt' = -1 /\ kills' = 0 /\ killAt' = -1
    /\ lastPoll' = "none" /\ callChild' = child

\* shutdown_server has returned to its caller: its locals are gone.
Return ==
    /\ spc = "ret"
    /\ now' = 0
    /\ spc' = "none" /\ deadline' = 0 /\ termAt' = -1 /\ kills' = 0 /\ killAt' = -1
    /\ lastPoll' = "none" /\ callChild' = "none"

\* start_server has returned to the worker: wait_for_server's locals are gone.
Returned ==
    /\ now' = 0
    /\ waitStart' = 0 /\ reqAt' = -1 /\ lastResp' = NoResp /\ waitResult' = "none"

\* ------------------------------------------------- main.rs: the start worker
\* Mutant: the worker stores the child without waiting for the lock.
WorkerLock_NoWait ==
    /\ Alive /\ wpc = "ret_ok"
    /\ lock' = "worker"
    /\ wpc' = "store"
    /\ Returned
    /\ UNCHANGED <<unix, staleSig, arch, port, childVars, steps, stepOk, probe,
                   connect, startErr, raced, epc, slot, closes, exitReq, shutVars>>

\* Ok(child) => { let mut guard = state.lock().unwrap();
WorkerLock ==
    /\ Alive /\ wpc = "ret_ok" /\ lock = "none"
    /\ lock' = "worker"
    /\ wpc' = "store"
    /\ Returned
    /\ UNCHANGED <<unix, staleSig, arch, port, childVars, steps, stepOk, probe,
                   connect, startErr, raced, epc, slot, closes, exitReq, shutVars>>

\* Mutant: after storing the child the worker starts the server again.
WorkerStore_Restart ==
    /\ Alive /\ wpc = "store"
    /\ slot' = TRUE
    /\ lock' = "none"
    /\ wpc' = "arch"
    /\ UNCHANGED <<unix, staleSig, arch, now, port, childVars, steps, stepOk, probe,
                   connect, startErr, raced, waitVars, epc, closes, exitReq, shutVars>>

\* guard.child = Some(child); drop(guard); window.navigate(..) }
WorkerStore ==
    /\ Alive /\ wpc = "store"
    /\ slot' = TRUE
    /\ lock' = "none"
    /\ wpc' = "done"
    /\ UNCHANGED <<unix, staleSig, arch, now, port, childVars, steps, stepOk, probe,
                   connect, startErr, raced, waitVars, epc, closes, exitReq, shutVars>>

\* Err(error_msg) => { window.eval(..) }
WorkerError ==
    /\ Alive /\ wpc = "ret_err"
    /\ wpc' = "done"
    /\ Returned
    /\ UNCHANGED <<unix, staleSig, arch, port, childVars, steps, stepOk, probe,
                   connect, startErr, raced, mainVars, shutVars>>

\* ------------------------------------------------- main.rs: the event loop
\* WindowEvent::CloseRequested is delivered
CloseRequested ==
    /\ epc = "idle" /\ closes < MaxCloseEvents
    /\ closes' = closes + 1
    /\ epc' = "close_lock"
    /\ UNCHANGED <<unix, staleSig, arch, now, port, childVars, startVars, waitVars,
                   lock, slot, exitReq, shutVars>>

\* let mut guard = state.lock().unwrap();
CloseLock ==
    /\ epc = "close_lock" /\ lock = "none"
    /\ lock' = "event"
    /\ epc' = "close_check"
    /\ UNCHANGED <<unix, staleSig, arch, now, port, childVars, startVars, waitVars,
                   slot, closes, exitReq, shutVars>>

\* Mutant: the close handler shuts down whatever the slot holds, even nothing.
CloseCheck_Always ==
    /\ epc = "close_check"
    /\ epc' = "close_shutdown" /\ Call
    /\ UNCHANGED <<unix, staleSig, arch, port, childVars, startVars, waitVars, lock,
                   slot, closes, exitReq>>

\* if let Some(ref mut child) = guard.child { shutdown_server(child); }
CloseCheck ==
    /\ epc = "close_check"
    /\ IF slot THEN epc' = "close_shutdown" /\ Call
       ELSE epc' = "close_exit" /\ UNCHANGED <<now, shutVars>>
    /\ UNCHANGED <<unix, staleSig, arch, port, childVars, startVars, waitVars, lock,
                   slot, closes, exitReq>>

\* shutdown_server returned to the close handler
CloseReturn ==
    /\ epc = "close_shutdown"
    /\ Return
    /\ epc' = "close_exit"
    /\ UNCHANGED <<unix, staleSig, arch, port, childVars, startVars, waitVars, lock,
                   slot, closes, exitReq>>

\* Mutant: exit(0) runs the exit handler at once, inside the close handler.
CloseExit_Reentrant ==
    /\ epc = "close_exit"
    /\ exitReq' = TRUE
    /\ lock' = lock
    /\ epc' = "exit_lock"
    /\ UNCHANGED <<unix, staleSig, arch, now, port, childVars, startVars, waitVars,
                   slot, closes, shutVars>>

\* close_handle.exit(0); the guard is dropped as the handler returns
CloseExit ==
    /\ epc = "close_exit"
    /\ exitReq' = TRUE
    /\ lock' = "none"
    /\ epc' = "idle"
    /\ UNCHANGED <<unix, staleSig, arch, now, port, childVars, startVars, waitVars,
                   slot, closes, shutVars>>

\* RunEvent::Exit is delivered: after exit(0), or on a quit that bypassed the window
ExitEvent ==
    /\ epc = "idle"
    /\ epc' = "exit_lock"
    /\ UNCHANGED <<unix, staleSig, arch, now, port, childVars, startVars, waitVars,
                   lock, slot, closes, exitReq, shutVars>>

ExitLock ==
    /\ epc = "exit_lock" /\ lock = "none"
    /\ lock' = "event"
    /\ epc' = "exit_check"
    /\ UNCHANGED <<unix, staleSig, arch, now, port, childVars, startVars, waitVars,
                   slot, closes, exitReq, shutVars>>

ExitCheck ==
    /\ epc = "exit_check"
    /\ IF slot THEN epc' = "exit_shutdown" /\ Call /\ lock' = lock
       ELSE epc' = "exited" /\ lock' = "none" /\ UNCHANGED <<now, shutVars>>
    /\ UNCHANGED <<unix, staleSig, arch, port, childVars, startVars, waitVars, slot,
                   closes, exitReq>>

\* shutdown_server returned to the exit handler; the guard is dropped, the process ends
ExitReturn ==
    /\ epc = "exit_shutdown"
    /\ Return
    /\ lock' = "none"
    /\ epc' = "exited"
    /\ UNCHANGED <<unix, staleSig, arch, port, childVars, startVars, waitVars, slot,
                   closes, exitReq>>

Worker == WorkerLock \/ WorkerStore \/ WorkerError
EventLoop ==
    \/ CloseRequested \/ CloseLock \/ CloseCheck \/ CloseReturn \/ CloseExit
    \/ ExitEvent \/ ExitLock \/ ExitCheck \/ ExitReturn
Environment == ThirdPartyBind \/ ChildBind \/ ChildExit

Next ==
    \/ StartArch \/ StartResourceDir \/ StartAppDataDir \/ setup_logging
    \/ StartProbe \/ StartSpawn \/ StartKillOnFail \/ StartWaitOnFail
    \/ WaitBegin \/ WaitCheck \/ WaitRequest \/ WaitSleep
    \/ ShutTerm \/ ShutTryWait \/ ShutDeadline \/ ShutSleep \/ ShutKill \/ ShutWait
    \/ OtherKill
    \/ WorkerLock \/ WorkerStore \/ WorkerError
    \/ CloseRequested \/ CloseLock \/ CloseCheck \/ CloseReturn \/ CloseExit
    \/ ExitEvent \/ ExitLock \/ ExitCheck \/ ExitReturn
    \/ ThirdPartyBind \/ ChildBind \/ ChildExit

Spec == Init /\ [][Next]_vars

\* A thread that can run does run, and SIGKILL takes effect.
FairSpec ==
    /\ Spec
    /\ WF_vars(shutdown_server)
    /\ WF_vars(ChildDie)

\* The handlers the event loop is running, as opposed to the events it is handed.
Handlers ==
    \/ CloseLock \/ CloseCheck \/ CloseReturn \/ CloseExit
    \/ ExitLock \/ ExitCheck \/ ExitReturn

WorkerThread == start_server \/ wait_for_server \/ Worker

\* The two supported architectures differ only in the binary's name, which plays no
\* part in locking: one of them stands for both here.
LiveInit == Init /\ arch # "aarch64"

\* Every thread that can run does run, and SIGKILL takes effect.
LiveSpec ==
    /\ LiveInit /\ [][Next]_vars
    /\ WF_vars(WorkerThread)
    /\ WF_vars(Handlers)
    /\ WF_vars(shutdown_server)
    /\ WF_vars(ChildDie)

\* ===================================================================== claims
StepOrder == <<"arch", "resource_dir", "app_data_dir", "log", "probe", "spawn", "wait">>
IsPrefix(a, b) == Len(a) <= Len(b) /\ \A i \in 1..Len(a) : a[i] = b[i]
Is2xx(r) == r.err = "none" /\ r.status \in 200..299
Elapsed == now - waitStart
StartReturnedOk == wpc \in {"ret_ok", "store"} \/ slot

\* C1: when start_server returns an error after the health wait failed, the child
\* has been sent the forced kill and its exit has been waited for, and the error is
\* the one wait_for_server gave; whenever start_server has returned an error, no
\* child of that call is still running.
C1_HealthFailureKillsChild ==
    /\ (wpc = "ret_err" /\ waitResult # "none") =>
           (sig = "kill" /\ child = "reaped" /\ startErr = waitResult)
    /\ startErr # "none" => child \in {"none", "reaped"}

C1_Witness ==
    wpc = "ret_err" /\ waitResult = "timeout" /\ startErr = "timeout" /\ child = "reaped"

\* C2: when the probe reports the port occupied, start_server fails with the
\* port-conflict error and the spawn step is never reached: no child exists.
C2_PortConflictNoSpawn ==
    probe = "busy" =>
        /\ wpc \in {"ret_err", "done"}
        /\ startErr = "port"
        /\ child = "none"
        /\ \A i \in 1..Len(steps) : steps[i] # "spawn"

C2_Witness == probe = "busy" /\ port = "third" /\ wpc = "done" /\ startErr = "port"

\* C3: the steps of start_server happen in the order configuration (architecture,
\* resource directory, data directory), log sink, port probe, spawn, health wait,
\* and a step is only taken when every earlier one succeeded.
C3_StrictStepOrder ==
    /\ IsPrefix(steps, StepOrder)
    /\ Len(stepOk) = Len(steps)
    /\ \A i \in 1..(Len(steps) - 1) : stepOk[i]

C3_Witness == wpc = "ret_ok" /\ steps = StepOrder /\ \A i \in 1..Len(stepOk) : stepOk[i]

\* C4: if a third party takes the port after the probe reported it free and before
\* the spawn, start_server never returns success.
C4_RaceNeverSucceeds == raced => ~StartReturnedOk

\* C5: wait_for_server returns success only on a health response with a 2xx status
\* that has just arrived; any other outcome of a request leaves the wait undecided
\* and is followed by a sleep of one poll interval before the next iteration.
C5_SuccessOnly2xx ==
    /\ [](waitResult = "ok" => (Is2xx(lastResp) /\ reqAt >= 0 /\ wpc = "ret_ok"))
    /\ [](wpc = "wait_sleep" => (waitResult = "none" /\ reqAt >= 0 /\ ~Is2xx(lastResp)))
    /\ [][(wpc = "wait_req" /\ wpc' # wpc) =>
              IF Is2xx(lastResp') THEN wpc' = "ret_ok" /\ waitResult' = "ok"
              ELSE wpc' = "wait_sleep" /\ waitResult' = "none"]_vars
    /\ [][(wpc = "wait_sleep" /\ wpc' # wpc) =>
              (wpc' = "wait_check" /\ now' = now + POLL_INTERVAL)]_vars

C5_Witness == waitResult = "ok" /\ lastResp.status = 204 /\ Elapsed > POLL_INTERVAL

\* C6 as stated: the timeout failure comes no earlier than the deadline and no
\* later than the deadline plus one poll interval.
C6_TimeoutWithinOnePoll ==
    waitResult = "timeout" =>
        (Elapsed >= HEALTH_TIMEOUT /\ Elapsed <= HEALTH_TIMEOUT + POLL_INTERVAL)

\* C6 amended: the timeout failure comes no earlier than the deadline and no later
\* than the deadline plus one per-request timeout plus one poll interval.
C6_TimeoutWithinRequestAndPoll ==
    waitResult = "timeout" =>
        /\ Elapsed >= HEALTH_TIMEOUT
        /\ Elapsed <= HEALTH_TIMEOUT + REQUEST_TIMEOUT + POLL_INTERVAL

C6_Witness ==
    waitResult = "timeout" /\ Elapsed = HEALTH_TIMEOUT + REQUEST_TIMEOUT + POLL_INTERVAL

\* C7 as stated: success is never returned for a 2xx response that arrives after
\* the deadline has been exceeded.
C7_NoSuccessAfterDeadline == waitResult = "ok" => Elapsed <= HEALTH_TIMEOUT

\* C7 amended: no health request is issued once the elapsed time exceeds the
\* deadline, so success is only returned for a request issued at or before the
\* deadline; its 2xx response is accepted even when it arrives after the deadline,
\* by at most one per-request timeout.
C7_NoRequestAfterDeadline ==
    /\ wpc = "wait_req" => Elapsed <= HEALTH_TIMEOUT
    /\ waitResult = "ok" =>
           /\ reqAt - waitStart <= HEALTH_TIMEOUT
           /\ Elapsed <= HEALTH_TIMEOUT + REQUEST_TIMEOUT

C7_Witness ==
    waitResult = "ok" /\ reqAt - waitStart = HEALTH_TIMEOUT /\ Elapsed > HEALTH_TIMEOUT

\* C8: with cooperative signalling, when the child exits on the termination request
\* before the grace period has elapsed (and no status query fails), shutdown_server
\* returns having issued no forced kill.
C8_ExitInGraceNoKill ==
    (/\ spc = "ret" /\ unix
     /\ exitBy = "term" /\ exitAt >= 0 /\ exitAt < deadline
     /\ lastPoll # "err") => kills = 0

C8_Witness ==
    /\ spc = "ret" /\ unix /\ exitBy = "term" /\ exitAt > 0 /\ exitAt < deadline
    /\ lastPoll = "some" /\ kills = 0 /\ child = "reaped"

\* C9: with cooperative signalling, when every status poll finds the child still
\* running, shutdown_server issues exactly one forced kill, and not before the
\* grace period has elapsed since the termination request.
C9_OneKillAfterGrace ==
    /\ unix => kills <= 1
    /\ (spc = "ret" /\ unix /\ lastPoll = "running") =>
           /\ kills = 1
           /\ killAt >= deadline
           /\ killAt - termAt >= GRACE_PERIOD

C9_Witness ==
    /\ spc = "ret" /\ unix /\ lastPoll = "running" /\ exitBy = "kill"
    /\ kills = 1 /\ killAt = termAt + GRACE_PERIOD

\* C10: every call of shutdown_server returns, and at its return the child has
\* exited and been reaped: a status poll observed the exit, or one forced kill was
\* issued and the exit was waited for; on both platform variants.
C10_ShutdownReturnsChildExited ==
    /\ [](spc = "ret" =>
            /\ child = "reaped"
            /\ \/ (kills = 0 /\ lastPoll = "some")
               \/ (kills = 1 /\ lastPoll # "some"))
    /\ (spc = "call" ~> spc = "ret")

C10_Witness ==
    spc = "ret" /\ ~unix /\ kills = 1 /\ exitBy = "kill" /\ child = "reaped"

\* C11: when a status query fails during the grace-period polling, shutdown_server
\* goes straight to the forced kill and the wait for exit (no sleep, no further
\* poll), and returns normally with the child exited and reaped.
C11_StatusErrorEscalates ==
    /\ [](lastPoll = "err" => (unix /\ spc \in {"kill", "wait", "ret"}))
    /\ []((spc = "ret" /\ lastPoll = "err") =>
            (kills = 1 /\ killAt = now /\ child = "reaped"))
    /\ [][(lastPoll' = "err" /\ lastPoll # "err") => (spc' = "kill" /\ kills' = 0)]_vars
    /\ [][(lastPoll = "err" /\ spc' # spc) =>
            \/ (now' = now /\ <<spc, spc'>> \in {<<"kill", "wait">>, <<"wait", "ret">>})
            \/ (spc = "ret" /\ spc' = "none")]_vars

C11_Witness ==
    /\ spc = "ret" /\ lastPoll = "err" /\ callChild = "running" /\ exitBy = "kill"
    /\ kills = 1 /\ now > 0 /\ now < deadline /\ child = "reaped"

\* C12 as stated: a second call of shutdown_server on a handle whose child has
\* already exited returns at once, issues no forced kill and leaves the child exited.
C12_SecondCallNoKill ==
    (spc = "ret" /\ callChild = "reaped") => (kills = 0 /\ now = 0 /\ child = "reaped")

\* C12 amended: such a second call returns at once and leaves the child exited; with
\* cooperative signalling it returns on the first status poll and calls no forced
\* kill, on the other variant it calls child.kill() once more, which sends nothing
\* to the exited child, and child.wait(), which returns the held status.
C12_SecondCallReturnsAtOnce ==
    /\ (spc = "ret" /\ callChild = "reaped") =>
           /\ now = 0 /\ child = "reaped"
           /\ IF unix THEN kills = 0 /\ lastPoll = "some"
              ELSE kills = 1 /\ lastPoll = "none" /\ sig # "none"
    /\ (spc # "none" /\ callChild = "reaped") => (child = "reaped" /\ now = 0)

C12_Witness ==
    /\ spc = "ret" /\ callChild = "reaped" /\ unix /\ epc = "exit_shutdown"
    /\ kills = 0 /\ lastPoll = "some" /\ child = "reaped"

\* C13: the worker and the two callbacks touch the slot only while holding the
\* lock, at most one of them is in its critical section at a time, and
\* shutdown_server only ever runs in the callback that holds the lock.
WorkerInCS == wpc = "store"
EventInCS ==
    epc \in {"close_check", "close_shutdown", "close_exit", "exit_check", "exit_shutdown"}
C13_SlotUnderLock ==
    /\ [](WorkerInCS => lock = "worker")
    /\ [](EventInCS => lock = "event")
    /\ [](~(WorkerInCS /\ EventInCS))
    /\ [](spc # "none" => (lock = "event" /\ epc \in {"close_shutdown", "exit_shutdown"}))
    /\ [][slot' # slot => (lock = "worker" /\ WorkerInCS)]_vars

C13_Witness == WorkerInCS /\ lock = "worker" /\ epc = "close_lock"

\* C14: once a callback's shutdown_server has confirmed the exit, the slot no longer
\* holds the handle, and no later callback calls shutdown_server on it.
C14_HandleInvalidated ==
    /\ (child = "reaped" /\ spc = "none") => ~slot
    /\ spc = "call" => callChild # "reaped"

\* C15: a callback that finds the slot empty takes no termination action: it does not
\* enter shutdown_server, sends no signal, and leaves the slot empty.
C15_EmptySlotNoAction ==
    /\ [](~slot => (spc = "none" /\ kills = 0 /\ ~staleSig))
    /\ [][(epc \in {"close_check", "exit_check"} /\ ~slot /\ epc' # epc) =>
              /\ epc' = (IF epc = "close_check" THEN "close_exit" ELSE "exited")
              /\ spc' = "none" /\ sig' = sig /\ child' = child /\ ~slot']_vars

C15_Witness ==
    epc = "close_exit" /\ ~slot /\ child = "running" /\ sig = "none" /\ spc = "none"

\* C16: at most one child is ever spawned, start_server is begun once, and it is
\* never begun while a child exists or the slot holds a handle.
Times(name) == Cardinality({i \in 1..Len(steps) : steps[i] = name})
C16_SingleChild ==
    /\ Times("arch") <= 1 /\ Times("spawn") <= 1
    /\ wpc = "arch" => (child = "none" /\ ~slot)
    /\ slot => (child # "none" /\ wpc = "done")

C16_Witness == slot /\ child = "running" /\ wpc = "done" /\ Times("spawn") = 1

\* C17: check_port_available makes one connection attempt and answers true exactly
\* when that attempt was refused: false when it connected, false on any other error.
C17_FreeIffRefused ==
    /\ probe = "none" => (connect = "none" /\ Times("probe") = 0)
    /\ probe # "none" =>
           /\ Times("probe") = 1
           /\ connect \in {"ok", "refused", "timed_out", "unreachable"}
           /\ (probe = "free") <=> (connect = "refused")
           /\ (probe = "busy") <=> (connect \in {"ok", "timed_out", "unreachable"})

C17_Witness == probe = "busy" /\ connect = "unreachable" /\ port = "free"

\* C18: once the application has exited, no child spawned by the supervisor is left
\* running (a child with SIGKILL pending counts as on its way out).
C18_NoOrphanAfterExit == epc = "exited" => ~(child = "running" /\ sig # "kill")

\* C19: no termination signal is ever sent to the pid of a child whose exit has been
\* confirmed and reaped.
C19_NoSignalAfterReap == ~staleSig

\* C20: the lock never deadlocks.  Attempts to take the lock are finitely many (one
\* by the worker, one per callback run), so "every attempt succeeds and every holder
\* releases" is: from some point on nobody holds the lock and nobody waits for it
\* (a worker still waiting when the process has ended is gone with it).  And a
\* window-close request is always followed by the call of exit.
LockQuiet ==
    /\ lock = "none"
    /\ epc \notin {"close_lock", "exit_lock"}
    /\ (wpc \in {"ret_ok", "store"} => epc = "exited")
C20_LockProgress ==
    /\ <>[]LockQuiet
    /\ (epc = "close_lock" ~> (epc = "idle" /\ exitReq))

C20_Witness == wpc = "ret_ok" /\ lock = "event" /\ epc = "close_exit" /\ child = "running"

====
